---------------------------- MODULE Spec2Model ----------------------------
(***************************************************************************)
(* Model of src/train_helper.py: tracker, experiment, prior_buffer,        *)
(* accuracy_reporter and f1_reporter.                                      *)
(*                                                                         *)
(* Conventions                                                             *)
(*  - Python lists and numpy arrays are sequences; Python index i is       *)
(*    position i + 1 here.                                                 *)
(*  - A true division a / b is the exact fraction <<a, b>>; two fractions  *)
(*    are compared by cross multiplication (FracEq).                       *)
(*  - A row of a (length, dim) float array is one value: the dim columns   *)
(*    of a row are written and read together and no claim looks inside.    *)
(*  - Line 275 of the source reads `self.prec.append(prec))`; it is        *)
(*    modelled as the statement `self.prec.append(prec)`.                  *)
(***************************************************************************)
EXTENDS Integers, Sequences, FiniteSets, TLC

VARIABLES
    \* tracker
    values,          \* self.values: name -> running sum
    counter,         \* self.counter
    tr_hist,         \* history: the update calls since __init__ / reset()
    tr_raised,       \* history: some update since reset() raised KeyError
    tr_call,         \* history: the last tracker method called
    \* prior_buffer
    buffer,          \* self.buffer: one sequence of rows per slot
    dense,           \* self.buffer is one float array (all slots equally long)
                     \* rather than an object array of arrays
    count,           \* self.count
    freq,            \* self.freq
    path,            \* self.path
    file,            \* what is pickled at <init_path>/<name>_<dim>, or NoFile
    shape0,          \* history: each slot's length when the buffer was built
    made,            \* a prior_buffer object exists
    pb_call,         \* history: the last prior_buffer method called
    \* experiment
    dirs,            \* the directories of the file system, as paths
    ex_succ,         \* history: per experiment directory, the non-debug
                     \* constructions that succeeded
    ex_done,         \* history: the (config, prefix) of those constructions
    ex_call,         \* history: the last experiment construction
    \* accuracy_reporter
    acc_right_count,    \* self.right_count
    acc_instance_count, \* self.instance_count
    acc_pred,           \* self.pred (<<>> until the first update)
    acc_label,          \* self.label (<<>> until the first update)
    acc_masked,      \* history: masked-in positions of all updates
    acc_wrong,       \* history: those of them with pred # label
    acc_n,           \* history: number of update calls
    acc_ret,         \* history: what the last report() returned
    acc_call,        \* history: the last accuracy_reporter method called
    \* f1_reporter
    f1_right_count,     \* self.right_count
    f1_instance_count,  \* self.instance_count
    f1_pred,         \* self.pred, when set
    f1_label,        \* self.label, when set
    f1_set,          \* self.pred and self.label exist (update has run)
    f1,              \* self.f1
    prec,            \* self.prec
    rec,             \* self.rec
    f1_last,         \* history: the arguments of the most recent update
    f1_masked,       \* history: masked-in positions of all updates
    f1_matched,      \* history: those of them with pred = label
    f1_nupdate,      \* history: number of update calls
    f1_nreport,      \* history: number of report calls
    f1_ret,          \* history: what the last report() returned
    f1_call          \* history: the last f1_reporter method called

tracker_vars == <<values, counter, tr_hist, tr_raised, tr_call>>

buffer_vars == <<buffer, dense, count, freq, path, file, shape0, made,
                 pb_call>>

experiment_vars == <<dirs, ex_succ, ex_done, ex_call>>

accuracy_vars == <<acc_right_count, acc_instance_count, acc_pred, acc_label,
                   acc_masked, acc_wrong, acc_n, acc_ret, acc_call>>

f1_vars == <<f1_right_count, f1_instance_count, f1_pred, f1_label, f1_set,
             f1, prec, rec, f1_last, f1_masked, f1_matched, f1_nupdate,
             f1_nreport, f1_ret, f1_call>>

vars == <<tracker_vars, buffer_vars, experiment_vars, accuracy_vars, f1_vars>>

not_tracker_vars == <<buffer_vars, experiment_vars, accuracy_vars, f1_vars>>
not_buffer_vars == <<tracker_vars, experiment_vars, accuracy_vars, f1_vars>>
not_experiment_vars == <<tracker_vars, buffer_vars, accuracy_vars, f1_vars>>
not_accuracy_vars == <<tracker_vars, buffer_vars, experiment_vars, f1_vars>>
not_f1_vars == <<tracker_vars, buffer_vars, experiment_vars, accuracy_vars>>

-----------------------------------------------------------------------------
(* Generic helpers                                                         *)

Range(s) == {s[i] : i \in DOMAIN s}

RECURSIVE SeqSum(_)
SeqSum(s) == IF s = <<>> THEN 0 ELSE Head(s) + SeqSum(Tail(s))

\* a / b in Python 3 (true division), b # 0
Div(a, b) == <<a, b>>

\* the literal 0 (or 0.0) as a fraction
Zero == <<0, 1>>

FracEq(x, y) == x[2] # 0 /\ y[2] # 0 /\ x[1] * y[2] = y[1] * x[2]

FracAdd(x, y) == <<x[1] * y[2] + y[1] * x[2], x[2] * y[2]>>

-----------------------------------------------------------------------------
(* class tracker                                                           *)

\* bound: number of update calls recorded between two resets
MaxUpdates == 2

\* self.names, fixed at construction (assert len(names) > 0)
names == {"a", "b"}

\* a name that is not tracked
Untracked == "x"

TrackerValues == {1, 2}
TrackerCounts == {0, 1, 2}

\* named_values: a dict in insertion order, as a sequence of items with
\* distinct names
NamedValues ==
    LET Item == [name : names \cup {Untracked}, value : TrackerValues]
    IN  {<<>>} \cup {<<x>> : x \in Item}
        \cup {p \in {<<x, y>> : x \in Item, y \in Item} : p[1].name # p[2].name}

\* mutant of AddItem: the weight `* count` is dropped
AddItemUnweighted(vals, item, cnt) ==
    [vals EXCEPT ![item.name] = @ + item.value]

\* self.values[name] += value * count
AddItem(vals, item, cnt) ==
    [vals EXCEPT ![item.name] = @ + item.value * cnt]

\* the for loop of update: a name that is no key of self.values raises
\* KeyError and leaves the items before it applied
RECURSIVE UpdateItems(_, _, _)
UpdateItems(vals, items, cnt) ==
    IF items = <<>> THEN [values |-> vals, raised |-> FALSE]
    ELSE IF Head(items).name \notin DOMAIN vals
         THEN [values |-> vals, raised |-> TRUE]
         ELSE UpdateItems(AddItem(vals, Head(items), cnt), Tail(items), cnt)

\* tracker.__getitem__
tracker_getitem(name) ==
    IF counter # 0
    THEN Div(IF name \in DOMAIN values THEN values[name] ELSE 0, counter)
    ELSE Zero

\* tracker.__len__
tracker_len == Cardinality(names)

\* tracker.reset (also the body of __init__)
tracker_reset ==
    /\ values' = [n \in names |-> 0]
    /\ counter' = 0
    /\ tr_hist' = <<>>
    /\ tr_raised' = FALSE
    /\ tr_call' = "reset"
    /\ UNCHANGED not_tracker_vars

\* tracker.update
tracker_update ==
    /\ Len(tr_hist) < MaxUpdates
    /\ \E nv \in NamedValues, cnt \in TrackerCounts :
          LET r == UpdateItems(values, nv, cnt)
          IN  /\ counter' = counter + cnt
              /\ values' = r.values
              /\ tr_raised' = (tr_raised \/ r.raised)
              /\ tr_hist' = Append(tr_hist, [items |-> nv, count |-> cnt])
              /\ tr_call' = "update"
    /\ UNCHANGED not_tracker_vars

TrackerInit ==
    /\ values = [n \in names |-> 0]
    /\ counter = 0
    /\ tr_hist = <<>>
    /\ tr_raised = FALSE
    /\ tr_call = "init"

TrackerNext == tracker_update \/ tracker_reset

-----------------------------------------------------------------------------
(* class prior_buffer                                                      *)

\* bound: refresh counter values explored
MaxCount == 2

\* init_path=None
None == "None"
\* self.path when init_path is None
NoPath == <<>>
\* the file system holds no pickled buffer
NoFile == <<>>

\* len(r) for r in inputs
InputLens == {1, 2}
\* inputs (their lengths only): one or two sequences
Inputs == {<<a>> : a \in InputLens} \cup {<<a, b>> : a \in InputLens, b \in InputLens}
Freqs == {1, 2}
InitPaths == {None, "priors"}
\* ixs: indices up to len(buffer), which wraps
Ixs == 0 .. 2
\* post: every row of one sequence's value array holds the same value
PostVals == {1, 2}
\* post is batch size x batch length x dim: one batch length per call
BatchLens == {1, 2}
\* seq_len
SeqLens == {1, 2}

Min(a, b) == IF a < b THEN a ELSE b

\* v repeated n times
Rep(v, n) == [k \in 1 .. n |-> v]

\* one (p, i, l) of zip(post, ixs, seq_len)
Triples(r) == [i : Ixs, p : {Rep(v, r) : v \in PostVals}, l : SeqLens]

\* the arguments of one update_buffer call: one or two triples
Batches ==
    UNION {{<<t>> : t \in Triples(r)} \cup
           {<<t, u>> : t \in Triples(r), u \in Triples(r)} : r \in BatchLens}

\* os.path.join(init_path, name + "_" + str(dim)), or None
InitPath(init_path) ==
    IF init_path # None THEN <<init_path, "name_dim">> ELSE NoPath

\* os.path.isfile(self.path)
isfile(p) == p # NoPath /\ file # NoFile

\* np.zeros((len(r), dim)) for r in inputs
Zeros(inputs) == [k \in DOMAIN inputs |-> Rep(0, inputs[k])]

\* np.asarray of a list of 2-D arrays: one 3-D float array when all have the
\* same shape, an object array of arrays otherwise
AsArrayDense(inputs) == \A j, k \in DOMAIN inputs : inputs[j] = inputs[k]

\* mutant of InitBranch: a path whose file is missing is rejected
InitBranchStrict(p, isf) ==
    IF p = NoPath THEN "zero"
    ELSE IF p # NoPath /\ isf THEN "load"
    ELSE "raise"

\* the if / elif / else of __init__
InitBranch(p, isf) ==
    IF p = NoPath \/ ~isf THEN "zero"
    ELSE IF p # NoPath /\ isf THEN "load"
    ELSE "raise"

\* prior_buffer.load
load == file[1]

\* self.count = [0] * len(inputs)
InitCount(inputs, buf) == Rep(0, Len(inputs))

\* prior_buffer.__init__
prior_buffer_init ==
    /\ ~made
    /\ \E inputs \in Inputs, fr \in Freqs, init_path \in InitPaths :
          LET p      == InitPath(init_path)
              branch == InitBranch(p, isfile(p))
              built  == IF branch = "zero"
                        THEN [buffer |-> Zeros(inputs), dense |-> AsArrayDense(inputs)]
                        ELSE load
          IN  /\ pb_call' = [op |-> "init", err |-> IF branch = "raise" THEN "ValueError" ELSE "none",
                             inputs |-> inputs, init_path |-> init_path,
                             isfile |-> isfile(p)]
              /\ made' = (branch # "raise")
              /\ IF branch = "raise"
                 THEN UNCHANGED <<buffer, dense, count, freq, path, shape0>>
                 ELSE /\ freq' = fr
                      /\ path' = p
                      /\ buffer' = built.buffer
                      /\ dense' = built.dense
                      /\ count' = InitCount(inputs, built.buffer)
                      /\ shape0' = [k \in DOMAIN built.buffer |-> Len(built.buffer[k])]
              /\ UNCHANGED file
    /\ UNCHANGED not_buffer_vars

\* prior_buffer.__len__
buffer_len(buf) == Len(buf)

\* p[:int(l), :]
Take(p, l) == SubSeq(p, 1, Min(l, Len(p)))

\* self.buffer[new_i] = q. An object array takes q as the new element; a
\* float array copies q into the slot's rows, broadcasting a single row,
\* and raises ValueError for any other row count
Assign(old, q, isdense) ==
    IF ~isdense THEN [err |-> "none", rows |-> q]
    ELSE IF Len(q) = Len(old) THEN [err |-> "none", rows |-> q]
    ELSE IF Len(q) = 1 THEN [err |-> "none", rows |-> Rep(q[1], Len(old))]
    ELSE [err |-> "ValueError", rows |-> old]

\* self.count[new_i] % self.freq == 0
RefreshDue(c, fr) == c % fr = 0

\* mutant of LengthChecked: the assert is made before the counter is looked at
LengthCheckedAlways(c, fr) == TRUE

\* whether the body of the loop reaches `assert len(self.buffer[new_i]) == l`
LengthChecked(c, fr) == RefreshDue(c, fr)

\* mutant of Target: the index is clamped to the last slot instead of wrapping
TargetClamped(i, buf) == Min(i, buffer_len(buf) - 1) + 1

\* new_i = i % len(self), as a position
Target(i, buf) == (i % buffer_len(buf)) + 1

\* one iteration of the loop of update_buffer on st = [buffer, count, err]
UpdateOne(st, t, fr, isdense) ==
    IF buffer_len(st.buffer) = 0 THEN [st EXCEPT !.err = "ZeroDivisionError"]
    ELSE
    LET s == Target(t.i, st.buffer) IN
    IF s \notin DOMAIN st.count THEN [st EXCEPT !.err = "IndexError"]
    ELSE IF LengthChecked(st.count[s], fr) /\ Len(st.buffer[s]) # t.l
         THEN [st EXCEPT !.err = "AssertionError"]
    ELSE IF RefreshDue(st.count[s], fr)
         THEN LET a == Assign(st.buffer[s], Take(t.p, t.l), isdense)
              IN  IF a.err # "none" THEN [st EXCEPT !.err = a.err]
                  ELSE [st EXCEPT !.buffer[s] = a.rows, !.count[s] = @ + 1]
    ELSE [st EXCEPT !.count[s] = @ + 1]

\* the loop of update_buffer: an exception ends it, the iterations before
\* it stay applied
RECURSIVE UpdateAll(_, _, _, _)
UpdateAll(st, batch, fr, isdense) ==
    IF batch = <<>> \/ st.err # "none" THEN st
    ELSE UpdateAll(UpdateOne(st, Head(batch), fr, isdense), Tail(batch), fr, isdense)

Current == [buffer |-> buffer, count |-> count, err |-> "none"]

\* prior_buffer.update_buffer
update_buffer ==
    /\ made
    /\ \E batch \in Batches :
          LET st == UpdateAll(Current, batch, freq, dense)
          IN  /\ \A s \in DOMAIN st.count : st.count[s] <= MaxCount
              /\ buffer' = st.buffer
              /\ count' = st.count
              /\ pb_call' = [op |-> "update_buffer", err |-> st.err,
                             inputs |-> <<>>, init_path |-> None, isfile |-> FALSE]
    /\ UNCHANGED <<dense, freq, path, file, shape0, made>>
    /\ UNCHANGED not_buffer_vars

\* prior_buffer.save: open(None, "wb+") raises TypeError
save ==
    /\ made
    /\ IF path = NoPath
       THEN /\ pb_call' = [op |-> "save", err |-> "TypeError",
                           inputs |-> <<>>, init_path |-> None, isfile |-> FALSE]
            /\ UNCHANGED file
       ELSE /\ file' = <<[buffer |-> buffer, dense |-> dense]>>
            /\ pb_call' = [op |-> "save", err |-> "none",
                           inputs |-> <<>>, init_path |-> None, isfile |-> FALSE]
    /\ UNCHANGED <<buffer, dense, count, freq, path, shape0, made>>
    /\ UNCHANGED not_buffer_vars

\* Before construction. The file system holds no pickled buffer, or the one
\* an earlier run left there with save() after building it from its inputs
PriorInputs == {<<1>>, <<2, 1>>}

PriorFiles ==
    {NoFile} \cup
    {<<[buffer |-> Zeros(inp), dense |-> AsArrayDense(inp)]>> : inp \in PriorInputs}

BufferInit ==
    /\ buffer = <<>>
    /\ dense = FALSE
    /\ count = <<>>
    /\ freq = 1
    /\ path = NoPath
    /\ file \in PriorFiles
    /\ shape0 = <<>>
    /\ made = FALSE
    /\ pb_call = [op |-> "none", err |-> "none", inputs |-> <<>>,
                  init_path |-> None, isfile |-> FALSE]

BufferNext == prior_buffer_init \/ update_buffer \/ save

-----------------------------------------------------------------------------
(* class experiment                                                        *)

\* the dests of the parser's "configs" argument group, in sorted order
\* (config.get_parser is not part of the source at hand)
ConfigKeys == <<"ep", "lr">>

\* get_parser().get_default(key)
ParserDefault(key) == "1"

ConfigValues == {"1", "2"}

\* config.prior_file: here the directory that the configuration ep=2
\* derives under prefix "e"
PriorFileDirs == {<<"e", "ep2">>}

\* the parsed configuration: config.debug, the "configs" group's values (as
\* their str()), and the directories config.prior_file, config.vocab_file
Configs ==
    [debug : BOOLEAN, ep : ConfigValues, lr : ConfigValues,
     prior_file : PriorFileDirs, vocab_file : {<<"v">>}]

\* experiments_prefix
ExperimentPrefixes == {<<"e">>, <<"f">>}

\* "./"
CurrentDir == <<".">>

\* the loop over sorted(vars(arg_g["configs"]).items()): key + str(value) of
\* every value that is not the default
RECURSIVE Identifier(_, _)
Identifier(config, keys) ==
    IF keys = <<>> THEN ""
    ELSE (IF config[Head(keys)] # ParserDefault(Head(keys))
          THEN Head(keys) \o config[Head(keys)]
          ELSE "") \o Identifier(config, Tail(keys))

\* os.path.join(a, b) for a one-component b: "a/" names the directory a
PathJoin(a, b) == IF b = "" THEN a ELSE Append(a, b)

\* experiment.experiment_dir
experiment_dir(config, prefix) ==
    IF config.debug THEN CurrentDir
    ELSE PathJoin(prefix, Identifier(config, ConfigKeys))

\* os.path.isdir
isdir(d, fs) == d \in fs

\* os.makedirs(d, exist_ok=...): creates d and its missing parents
makedirs(d, exist_ok, fs) ==
    IF d \in fs
    THEN [err |-> IF exist_ok THEN "none" ELSE "FileExistsError", dirs |-> fs]
    ELSE [err |-> "none", dirs |-> fs \cup {SubSeq(d, 1, k) : k \in 1 .. Len(d)}]

\* experiment._makedir
experiment_makedir(d, fs) == makedirs(d, FALSE, fs)

\* experiment._make_misc_dir
experiment_make_misc_dir(config, fs) ==
    makedirs(config.vocab_file, TRUE, makedirs(config.prior_file, TRUE, fs).dirs)

\* mutant of NonDebugSetup: no existence check, and the directory is made
\* with exist_ok=True
NonDebugSetupOverwrite(d, fs) == makedirs(d, TRUE, fs)

\* the body of `if not config.debug:` in __init__
NonDebugSetup(d, fs) ==
    IF isdir(d, fs) THEN [err |-> "ValueError", dirs |-> fs]
    ELSE experiment_makedir(d, fs)

\* the experiment directory of every non-debug configuration
ExperimentDirs ==
    {experiment_dir(c, p) : c \in {x \in Configs : ~x.debug}, p \in ExperimentPrefixes}

\* experiment.__init__
experiment_init ==
    /\ \E config \in Configs, prefix \in ExperimentPrefixes :
          LET d    == experiment_dir(config, prefix)
              own  == IF ~config.debug THEN NonDebugSetup(d, dirs)
                      ELSE [err |-> "none", dirs |-> dirs]
              done == IF own.err = "none"
                      THEN experiment_make_misc_dir(config, own.dirs)
                      ELSE own
              ok   == done.err = "none" /\ ~config.debug
          IN  /\ dirs' = done.dirs
              /\ ex_succ' = IF ok THEN [ex_succ EXCEPT ![d] = @ + 1] ELSE ex_succ
              /\ ex_done' = IF ok THEN ex_done \cup {<<config, prefix>>} ELSE ex_done
              /\ ex_call' = [op |-> "init", config |-> config, prefix |-> prefix,
                             err |-> done.err, before |-> dirs,
                             repeat |-> <<config, prefix>> \in ex_done]
    /\ UNCHANGED not_experiment_vars

\* the file system before the first construction: the current directory,
\* and possibly a prefix directory left by other experiments
ExperimentInit ==
    /\ dirs \in {{CurrentDir}, {CurrentDir, <<"e">>}}
    /\ ex_succ = [d \in ExperimentDirs |-> 0]
    /\ ex_done = {}
    /\ ex_call = [op |-> "none", config |-> CHOOSE c \in Configs : TRUE,
                  prefix |-> <<>>, err |-> "none", before |-> {},
                  repeat |-> FALSE]

ExperimentNext == experiment_init

-----------------------------------------------------------------------------
(* class accuracy_reporter                                                 *)

\* bound: update calls on one reporter
MaxReporterUpdates == 2

\* bound: report calls on one f1_reporter
MaxReports == 2

\* position j of pred, label and mask (flattened), with a 0/1 mask
Positions ==
    {[pred |-> 1, label |-> 1, mask |-> 1], [pred |-> 0, label |-> 1, mask |-> 1],
     [pred |-> 0, label |-> 0, mask |-> 1], [pred |-> 1, label |-> 0, mask |-> 0],
     [pred |-> 1, label |-> 1, mask |-> 0]}

\* the arguments of one update: arrays of one or two positions
ReporterBatches == {<<x>> : x \in Positions} \cup {<<x, y>> : x \in Positions, y \in Positions}

PredOf(b) == [j \in DOMAIN b |-> b[j].pred]
LabelOf(b) == [j \in DOMAIN b |-> b[j].label]
MaskOf(b) == [j \in DOMAIN b |-> b[j].mask]

\* ((pred == label) * mask).sum()
RightSum(b) ==
    SeqSum([j \in DOMAIN b |-> (IF b[j].pred = b[j].label THEN 1 ELSE 0) * b[j].mask])

\* mask.sum()
MaskSum(b) == SeqSum(MaskOf(b))

\* history: positions counted one by one
MaskedIn(b) == {j \in DOMAIN b : b[j].mask # 0}
MaskedInWrong(b) == {j \in MaskedIn(b) : b[j].pred # b[j].label}

\* mutant of AccOf: the division is made without looking at instance_count
AccOfUnguarded(right, inst) == Div(right, inst)

\* self.right_count / self.instance_count if self.instance_count else 0.0
AccOf(right, inst) == IF inst # 0 THEN Div(right, inst) ELSE Zero

\* what accuracy_reporter.report returns
accuracy_report_value ==
    [perf |-> [acc |-> AccOf(acc_right_count, acc_instance_count),
               f1 |-> Zero, prec |-> Zero, rec |-> Zero],
     acc  |-> AccOf(acc_right_count, acc_instance_count)]

\* accuracy_reporter.update
accuracy_update ==
    /\ acc_n < MaxReporterUpdates
    /\ \E b \in ReporterBatches :
          /\ acc_right_count' = acc_right_count + RightSum(b)
          /\ acc_instance_count' = acc_instance_count + MaskSum(b)
          /\ acc_pred' = PredOf(b)
          /\ acc_label' = LabelOf(b)
          /\ acc_masked' = acc_masked + Cardinality(MaskedIn(b))
          /\ acc_wrong' = acc_wrong + Cardinality(MaskedInWrong(b))
    /\ acc_n' = acc_n + 1
    /\ acc_call' = "update"
    /\ UNCHANGED acc_ret
    /\ UNCHANGED not_accuracy_vars

\* accuracy_reporter.report
accuracy_report ==
    /\ acc_ret' = <<accuracy_report_value>>
    /\ acc_call' = "report"
    /\ UNCHANGED <<acc_right_count, acc_instance_count, acc_pred, acc_label,
                   acc_masked, acc_wrong, acc_n>>
    /\ UNCHANGED not_accuracy_vars

\* accuracy_reporter.__init__
AccuracyInit ==
    /\ acc_right_count = 0
    /\ acc_instance_count = 0
    /\ acc_pred = <<>>
    /\ acc_label = <<>>
    /\ acc_masked = 0
    /\ acc_wrong = 0
    /\ acc_n = 0
    /\ acc_ret = <<>>
    /\ acc_call = "init"

AccuracyNext == accuracy_update \/ accuracy_report

-----------------------------------------------------------------------------
(* class f1_reporter                                                       *)

\* x[mask != 0]
Masked(x, mask) ==
    LET RECURSIVE Pick(_)
        Pick(j) == IF j > Len(x) THEN <<>>
                   ELSE (IF mask[j] # 0 THEN <<x[j]>> ELSE <<>>) \o Pick(j + 1)
    IN  Pick(1)

\* micro averaging pools the counts of all classes: a position with
\* pred = label is a true positive of its class, any other position is a
\* false positive of the predicted class and a false negative of the true one
TruePositives(y_true, y_pred) ==
    Cardinality({j \in DOMAIN y_true : y_true[j] = y_pred[j]})
FalsePositives(y_true, y_pred) ==
    Cardinality({j \in DOMAIN y_true : y_true[j] # y_pred[j]})
FalseNegatives(y_true, y_pred) == FalsePositives(y_true, y_pred)

\* a score whose denominator is 0 is reported as 0.0
Score(num, den) == IF den = 0 THEN Zero ELSE Div(num, den)

\* precision_score(self.label, self.pred, average='micro')
precision_score(y_true, y_pred) ==
    Score(TruePositives(y_true, y_pred),
          TruePositives(y_true, y_pred) + FalsePositives(y_true, y_pred))

\* recall_score(self.label, self.pred, average='micro')
recall_score(y_true, y_pred) ==
    Score(TruePositives(y_true, y_pred),
          TruePositives(y_true, y_pred) + FalseNegatives(y_true, y_pred))

\* f1_score(self.label, self.pred, average='micro')
f1_score(y_true, y_pred) ==
    Score(2 * TruePositives(y_true, y_pred),
          2 * TruePositives(y_true, y_pred) + FalsePositives(y_true, y_pred)
              + FalseNegatives(y_true, y_pred))

RECURSIVE FracSum(_)
FracSum(s) == IF s = <<>> THEN Zero ELSE FracAdd(Head(s), FracSum(Tail(s)))

\* np.mean of a non-empty list of scores
Mean(s) == <<FracSum(s)[1], FracSum(s)[2] * Len(s)>>

\* self.pred = pred[mask != 0]
KeptPred(old, b) == Masked(PredOf(b), MaskOf(b))

\* self.label = label[mask != 0]
KeptLabel(old, b) == Masked(LabelOf(b), MaskOf(b))

\* f1_reporter.update
f1_update ==
    /\ f1_nupdate < MaxReporterUpdates
    /\ \E b \in ReporterBatches :
          /\ f1_right_count' = f1_right_count + RightSum(b)
          /\ f1_instance_count' = f1_instance_count + MaskSum(b)
          /\ f1_pred' = KeptPred(f1_pred, b)
          /\ f1_label' = KeptLabel(f1_label, b)
          /\ f1_last' = b
          /\ f1_masked' = f1_masked + Cardinality(MaskedIn(b))
          /\ f1_matched' = f1_matched + Cardinality(MaskedIn(b) \ MaskedInWrong(b))
    /\ f1_set' = TRUE
    /\ f1_nupdate' = f1_nupdate + 1
    /\ f1_call' = [op |-> "update", err |-> "none"]
    /\ UNCHANGED <<f1, prec, rec, f1_nreport, f1_ret>>
    /\ UNCHANGED not_f1_vars

\* f1_reporter.report: before the first update self.label does not exist
\* and line 269 raises AttributeError
f1_report ==
    /\ f1_nreport < MaxReports
    /\ f1_nreport' = f1_nreport + 1
    /\ IF ~f1_set
       THEN /\ f1_call' = [op |-> "report", err |-> "AttributeError"]
            /\ UNCHANGED <<f1, prec, rec, f1_ret>>
       ELSE /\ f1' = Append(f1, f1_score(f1_label, f1_pred))
            /\ rec' = Append(rec, recall_score(f1_label, f1_pred))
            /\ prec' = Append(prec, precision_score(f1_label, f1_pred))
            /\ f1_ret' = <<[perf |-> [acc |-> AccOf(f1_right_count, f1_instance_count),
                                      f1 |-> Mean(f1'), prec |-> Mean(prec'),
                                      rec |-> Mean(rec')],
                            hist |-> f1']>>
            /\ f1_call' = [op |-> "report", err |-> "none"]
    /\ UNCHANGED <<f1_right_count, f1_instance_count, f1_pred, f1_label, f1_set,
                   f1_last, f1_masked, f1_matched, f1_nupdate>>
    /\ UNCHANGED not_f1_vars

\* f1_reporter.__init__
F1Init ==
    /\ f1_right_count = 0
    /\ f1_instance_count = 0
    /\ f1_pred = <<>>
    /\ f1_label = <<>>
    /\ f1_set = FALSE
    /\ f1 = <<>>
    /\ prec = <<>>
    /\ rec = <<>>
    /\ f1_last = <<>>
    /\ f1_masked = 0
    /\ f1_matched = 0
    /\ f1_nupdate = 0
    /\ f1_nreport = 0
    /\ f1_ret = <<>>
    /\ f1_call = [op |-> "init", err |-> "none"]

F1Next == f1_update \/ f1_report

-----------------------------------------------------------------------------
(* Specifications                                                          *)

\* the objects a specification does not exercise stay unconstructed
BufferIdle == BufferInit /\ file = NoFile
ExperimentIdle == ExperimentInit /\ dirs = {CurrentDir}

Idle == BufferIdle /\ ExperimentIdle

Init == TrackerInit /\ Idle /\ AccuracyInit /\ F1Init

\* one tracker
SpecTracker == Init /\ [][TrackerNext]_vars

\* one prior_buffer over a file system that may hold an earlier run's file
BufferSpecInit ==
    TrackerInit /\ BufferInit /\ ExperimentIdle /\ AccuracyInit /\ F1Init
SpecBuffer == BufferSpecInit /\ [][BufferNext]_vars

\* experiments constructed one after the other over one file system
ExperimentSpecInit ==
    TrackerInit /\ BufferIdle /\ ExperimentInit /\ AccuracyInit /\ F1Init
SpecExperiment == ExperimentSpecInit /\ [][ExperimentNext]_vars

\* one accuracy_reporter
SpecAccuracy == Init /\ [][AccuracyNext]_vars

\* one f1_reporter
SpecF1 == Init /\ [][F1Next]_vars

-----------------------------------------------------------------------------
(* prior_buffer: C1, C2, C3, C4, C9, C10                                   *)

\* every triple a caller can pass next
AllTriples == UNION {Triples(r) : r \in BatchLens}

\* the state after one more iteration of update_buffer's loop on triple t
Applied(t) == UpdateOne(Current, t, freq, dense)

\* i mod len(buffer), as a position
WrapSlot(i) == (i % Len(buffer)) + 1

\* the triple's length is the length of the slot it targets
LengthMatches(t) == Len(buffer[WrapSlot(t.i)]) = t.l

\* C1: a triple whose length equals the targeted slot's length (and whose
\* value array has that many rows) overwrites the slot's content with the
\* value exactly when the number k of earlier updates of the slot, which
\* its refresh counter holds, has k mod period = 0; it leaves the content
\* unchanged otherwise; and the slot's refresh counter goes up by exactly 1.
C1_PeriodicRefresh ==
    made =>
        \A t \in AllTriples :
            (LengthMatches(t) /\ Len(t.p) >= t.l) =>
                LET s == WrapSlot(t.i) IN
                /\ s \in DOMAIN count
                /\ Applied(t).err = "none"
                /\ Applied(t).count[s] = count[s] + 1
                /\ Applied(t).buffer[s] =
                      IF count[s] % freq = 0 THEN Take(t.p, t.l) ELSE buffer[s]

\* C2 as stated: a triple whose length differs from the targeted slot's
\* length fails whatever the slot's refresh counter is, and the slot's
\* content is not overwritten.
C2_MismatchAlwaysFails ==
    made =>
        \A t \in AllTriples :
            ~LengthMatches(t) =>
                /\ Applied(t).err # "none"
                /\ Applied(t).buffer = buffer

\* C2 as amended: a triple whose length differs from the targeted slot's
\* length never overwrites the slot's content; it fails exactly when the
\* slot's refresh is due (refresh counter mod period = 0) or the slot has
\* no refresh counter, and otherwise it is accepted and only adds 1 to the
\* slot's refresh counter.
C2_MismatchFailsWhenDue ==
    made =>
        \A t \in AllTriples :
            ~LengthMatches(t) =>
                LET s == WrapSlot(t.i) IN
                /\ Applied(t).buffer = buffer
                /\ Applied(t).err # "none" <=>
                      (s \notin DOMAIN count \/ count[s] % freq = 0)
                /\ Applied(t).err = "none" =>
                      Applied(t).count = [count EXCEPT ![s] = @ + 1]

\* after an update, a slot whose refresh is not due is passed a triple of
\* another length, which is accepted
C2_Witness ==
    /\ made
    /\ pb_call.op = "update_buffer"
    /\ \E t \in AllTriples :
          /\ ~LengthMatches(t)
          /\ WrapSlot(t.i) \in DOMAIN count
          /\ count[WrapSlot(t.i)] % freq # 0
          /\ Applied(t).err = "none"
          /\ Applied(t).count[WrapSlot(t.i)] = count[WrapSlot(t.i)] + 1

\* the last call was __init__ with an init path whose file did not exist
MissingPathInit ==
    pb_call.op = "init" /\ pb_call.init_path # None /\ ~pb_call.isfile

\* C3 as stated: without an init path the buffer is zero-initialised from
\* the input lengths, with an init path whose file exists it is loaded from
\* the file, and with an init path whose file does not exist construction
\* fails and makes no buffer.
C3_MissingPathFails ==
    pb_call.op = "init" =>
        /\ pb_call.init_path = None =>
              made /\ pb_call.err = "none" /\ buffer = Zeros(pb_call.inputs)
        /\ (pb_call.init_path # None /\ pb_call.isfile) =>
              made /\ pb_call.err = "none" /\ buffer = file[1].buffer
        /\ MissingPathInit => ~made /\ pb_call.err # "none"

\* C3 as amended: construction never fails on the init path; the buffer is
\* loaded from the file when an init path is given and its file exists, and
\* is zero-initialised from the input lengths otherwise: without an init
\* path, and with an init path whose file does not exist.
C3_ZeroInitOrLoad ==
    pb_call.op = "init" =>
        /\ made
        /\ pb_call.err = "none"
        /\ buffer = IF pb_call.init_path # None /\ pb_call.isfile
                    THEN file[1].buffer
                    ELSE Zeros(pb_call.inputs)
        /\ dense = IF pb_call.init_path # None /\ pb_call.isfile
                   THEN file[1].dense
                   ELSE AsArrayDense(pb_call.inputs)

\* constructed with an init path whose file does not exist
C3_Witness ==
    /\ MissingPathInit
    /\ made
    /\ path # NoPath
    /\ Len(pb_call.inputs) = 2
    /\ buffer = Zeros(pb_call.inputs)

\* C4: a triple with index i has the effect of the same triple with index
\* i mod len(buffer), so index len(buffer) acts on slot 0, and it changes
\* the content and the refresh counter of no slot other than slot
\* i mod len(buffer).
C4_WrapAndFrame ==
    made =>
        \A t \in AllTriples :
            LET s == WrapSlot(t.i) IN
            /\ Applied(t) = Applied([t EXCEPT !.i = t.i % Len(buffer)])
            /\ \A j \in DOMAIN buffer \ {s} : Applied(t).buffer[j] = buffer[j]
            /\ \A j \in DOMAIN count \ {s} : Applied(t).count[j] = count[j]
            /\ DOMAIN Applied(t).buffer = DOMAIN buffer
            /\ DOMAIN Applied(t).count = DOMAIN count

\* a buffer of two slots, updated before, where index len(buffer) rewrites
\* slot 0 and counts on slot 0's counter
C4_Witness ==
    /\ made
    /\ pb_call.op = "update_buffer"
    /\ Len(buffer) = 2
    /\ Len(count) = 2
    /\ \E t \in AllTriples :
          /\ t.i = Len(buffer)
          /\ Applied(t).buffer[1] # buffer[1]
          /\ Applied(t).count[1] = count[1] + 1
          /\ Applied(t).buffer[2] = buffer[2]

\* C9: every slot keeps the length it had when the buffer was built,
\* whatever value arrays and lengths update_buffer is given.
C9_ShapeFixed ==
    made => \A s \in DOMAIN buffer : Len(buffer[s]) = shape0[s]

\* C10: the buffer has as many refresh counters as slots, after construction
\* by either branch and after every update_buffer call.
C10_CounterPerSlot ==
    made => Len(buffer) = Len(count)

-----------------------------------------------------------------------------
(* experiment: C6                                                          *)

\* C6: a non-debug construction with the configuration and prefix of an
\* earlier successful non-debug construction fails with the directory-exists
\* ValueError and leaves the file system, the experiment directory with it,
\* as it was; and per experiment directory at most one non-debug
\* construction ever succeeds.
C6_SecondConstructionFails ==
    /\ (ex_call.op = "init" /\ ~ex_call.config.debug /\ ex_call.repeat) =>
          /\ ex_call.err = "ValueError"
          /\ dirs = ex_call.before
    /\ \A d \in ExperimentDirs : ex_succ[d] <= 1

\* a configuration that succeeded before is constructed again and fails,
\* after two different configurations succeeded
C6_Witness ==
    /\ ex_call.op = "init"
    /\ ~ex_call.config.debug
    /\ ex_call.repeat
    /\ ex_call.err = "ValueError"
    /\ experiment_dir(ex_call.config, ex_call.prefix) \in dirs
    /\ Cardinality({d \in ExperimentDirs : ex_succ[d] = 1}) >= 2

-----------------------------------------------------------------------------
(* accuracy_reporter: C8                                                   *)

\* C8: with 0/1 masks, after any sequence of updates report() returns
\* acc = 1.0 when at least one position is masked in and every masked-in
\* position has pred = label, and returns acc = 0.0, without raising, when
\* no position is masked in (also when update was never called).
C8_AccuracyOneOrZero ==
    /\ (acc_masked >= 1 /\ acc_wrong = 0) =>
          FracEq(accuracy_report_value.acc, <<1, 1>>)
    /\ acc_masked = 0 => accuracy_report_value.acc = Zero
    /\ accuracy_report_value.perf.acc = accuracy_report_value.acc
    /\ acc_call = "report" => acc_ret = <<accuracy_report_value>>

\* report() after two updates whose masked-in positions all match, the last
\* update holding a masked-out position whose prediction is wrong
C8_Witness ==
    /\ acc_call = "report"
    /\ acc_n = 2
    /\ acc_masked >= 2
    /\ acc_wrong = 0
    /\ \E j \in DOMAIN acc_pred : acc_pred[j] # acc_label[j]
    /\ FracEq(acc_ret[1].acc, <<1, 1>>)

-----------------------------------------------------------------------------
(* f1_reporter: C7                                                         *)

\* the masked-in positions of the most recent update, and the matching ones
LastIn == MaskedIn(f1_last)
LastRight == MaskedIn(f1_last) \ MaskedInWrong(f1_last)

\* a score is the share `num` of `den` positions, 0.0 for no position
IsShare(x, num, den) == IF den = 0 THEN x = Zero ELSE FracEq(x, <<num, den>>)

\* n times x is the sum of the scores in s
IsMeanOf(x, s) ==
    LET t == FracSum(s) IN x[2] # 0 /\ x[1] * Len(s) * t[2] = t[1] * x[2]

\* what C7 says of a report() call that has just returned
ReportedLast ==
    /\ f1_ret # <<>>
    /\ f1 # <<>>
    /\ IsShare(f1[Len(f1)], Cardinality(LastRight), Cardinality(LastIn))
    /\ IsShare(prec[Len(prec)], Cardinality(LastRight), Cardinality(LastIn))
    /\ IsShare(rec[Len(rec)], Cardinality(LastRight), Cardinality(LastIn))
    /\ IsShare(f1_ret[1].perf.acc, f1_matched, f1_masked)
    /\ IsMeanOf(f1_ret[1].perf.f1, f1)
    /\ f1_ret[1].hist = f1

\* C7: each report() call computes precision, recall and F1 from the
\* masked-in predictions and labels of the most recent update only, with
\* acc cumulative over all updates; it appends exactly one entry to the F1
\* history and returns as f1 the mean of all entries; after n report() calls
\* the history has n entries.
C7_ReportHistory ==
    /\ Len(f1) = f1_nreport
    /\ Len(prec) = f1_nreport
    /\ Len(rec) = f1_nreport
    /\ f1_call.op = "report" => (f1_call.err = "none" /\ ReportedLast)

\* the same for the report() calls made after at least one update: each
\* returns, and the history has one entry per such call
F1ReportAfterUpdate ==
    /\ (f1_call.op = "report" /\ f1_set) => (f1_call.err = "none" /\ ReportedLast)
    /\ (f1_call.op = "report" /\ ~f1_set) =>
          (f1_call.err = "AttributeError" /\ f1 = <<>>)
    /\ f1_nupdate = 0 => f1 = <<>>
    /\ Len(f1) <= f1_nreport

-----------------------------------------------------------------------------
(* tracker: C5                                                                      *)

\* value * count of an update for one name (0 when the update did not
\* supply the name)
SuppliedProduct(u, n) ==
    LET hit == {i \in DOMAIN u.items : u.items[i].name = n}
    IN  IF hit = {} THEN 0
        ELSE u.items[CHOOSE i \in hit : TRUE].value * u.count

HistSum(n) == SeqSum([i \in DOMAIN tr_hist |-> SuppliedProduct(tr_hist[i], n)])

HistCount == SeqSum([i \in DOMAIN tr_hist |-> tr_hist[i].count])

\* C5: after any sequence of update calls that supply tracked names only
\* (some or all of them), tracker[name] is the sum of value*count over the
\* updates that supplied the name divided by the sum of count over all
\* updates, and it is 0 while that sum of counts is 0: before any update
\* and after reset().
C5_RunningMean ==
    ~tr_raised =>
        \A n \in names :
            IF HistCount = 0
            THEN tracker_getitem(n) = Zero
            ELSE FracEq(tracker_getitem(n), <<HistSum(n), HistCount>>)

\* two updates, one of them supplying only "a", with different means
C5_Witness ==
    /\ ~tr_raised
    /\ Len(tr_hist) = 2
    /\ \E i \in DOMAIN tr_hist :
          {it.name : it \in Range(tr_hist[i].items)} = {"a"}
    /\ \E i \in DOMAIN tr_hist :
          {it.name : it \in Range(tr_hist[i].items)} = {"a", "b"}
    /\ HistCount > 2
    /\ ~FracEq(tracker_getitem("a"), tracker_getitem("b"))
    /\ tracker_getitem("b") # Zero

=============================================================================
